---- MODULE Spec2Model ----
(***************************************************************************)
(* State-machine model of src/src/render.js, the spritejs renderer of a    *)
(* matter-js world: Render.run / Render.stop / Render.world, the deferred  *)
(* overlay callback (extraDraw) registered on the layer's 'update' signal, *)
(* the view transform, and the per-part node cache (part.spriteNode,       *)
(* part.fullOpacity) kept by Render.bodies, Render.bodyWireframes and      *)
(* Render.bodyConvexHulls.                                                 *)
(*                                                                         *)
(* Opacities are counted in quarters (4 is the opacity 1, 2 is 0.5).       *)
(* Entity 1 is a single-part body (body.parts = [body]); entity 2 is a     *)
(* compound body (body.parts = [body, part]) and entity 3 is its part.     *)
(***************************************************************************)
EXTENDS Integers, Sequences, FiniteSets, TLC

\* ------------------------------------------------------------- bounds
MaxFrames == 3
MaxRuns == 2
MaxLooks == 2
MaxLength == 110
MaxTime == 1500

\* ------------------------------------------------------------- values
\* render.frameRequestId: null in the defaults
Null == 0
\* the value of a function without a return statement, and of a deleted field
Undefined == 0 - 1
\* s.attr('opacity') of a node no opacity was set on (1, in quarters)
DefaultOpacity == 4

Bodies == {1, 2}
Entities == {1, 2, 3}
\* body.parts: parts[0] is the body itself
Parts(b) == IF b = 1 THEN <<1>> ELSE <<2, 3>>
BodyOf(e) == IF e = 3 THEN 2 ELSE e

\* ------------------------------------------------------------- numbers
\* A JavaScript number is a fraction n/d in lowest terms with d > 0; d = 0 holds
\* the three non-finite values: Infinity (n = 1), -Infinity (n = -1), NaN (n = 0).
\* The arithmetic is exact: the rounding of doubles is not modelled.
Abs(i) == IF i < 0 THEN 0 - i ELSE i
Sign(i) == IF i < 0 THEN 0 - 1 ELSE IF i > 0 THEN 1 ELSE 0

RECURSIVE GCD(_, _)
GCD(a, b) == IF b = 0 THEN a ELSE GCD(b, a % b)

Norm(n, d) ==
  IF d = 0 THEN [n |-> Sign(n), d |-> 0]
  ELSE LET g == GCD(Abs(n), Abs(d))
       IN  [n |-> (Sign(d) * n) \div g, d |-> Abs(d) \div g]

Num(i) == [n |-> i, d |-> 1]
Infinity == [n |-> 1, d |-> 0]
NaN == [n |-> 0, d |-> 0]
IsNaN(a) == a.n = 0 /\ a.d = 0

Neg(a) == [n |-> 0 - a.n, d |-> a.d]
\* a + b: Infinity + -Infinity is NaN
Add(a, b) ==
  IF a.d = 0 /\ b.d = 0 THEN (IF a.n = b.n THEN a ELSE NaN)
  ELSE Norm(a.n * b.d + b.n * a.d, a.d * b.d)
Sub(a, b) == Add(a, Neg(b))
\* a * b: 0 * Infinity is NaN
Mul(a, b) == Norm(a.n * b.n, a.d * b.d)
\* a / b: x / 0 is an infinity of the sign of x, 0 / 0 is NaN
Div(a, b) == Mul(a, Norm(b.d, b.n))
\* a < b: false when either is NaN
Lt(a, b) ==
  /\ ~IsNaN(a) /\ ~IsNaN(b)
  /\ IF a.d = 0 /\ b.d = 0 THEN a.n < b.n ELSE a.n * b.d < b.n * a.d
Gt(a, b) == Lt(b, a)
Le(a, b) == ~IsNaN(a) /\ ~IsNaN(b) /\ ~Lt(b, a)
Ge(a, b) == Le(b, a)

Vec(x, y) == [x |-> Num(x), y |-> Num(y)]

\* ------------------------------------------------------------- the world's sizes
\* render.canvas.width and render.canvas.height
CanvasWidth == 4
CanvasHeight == 3

Positions == {[x |-> 1, y |-> 1], [x |-> 5, y |-> 1], [x |-> 1, y |-> 5]}
\* body.bounds: the box of half-width 1 around the body's position
BodyBounds(p) == [min |-> Vec(p.x - 1, p.y - 1), max |-> Vec(p.x + 1, p.y + 1)]
\* render.bounds of Render.create: the canvas
CreateBounds == [min |-> Vec(0, 0), max |-> Vec(CanvasWidth, CanvasHeight)]
\* declared opacities of part.render.sprite.attrs (Undefined: none declared)
AttrOpacities == {Undefined, 0, 2}

VARIABLES
  env,              \* "native": window.requestAnimationFrame exists; "fallback": the setTimeout fallback
  options,          \* render.options
  bounds,           \* render.bounds
  currentBackground,\* render.currentBackground
  frameRequestId,   \* render.frameRequestId
  pending,          \* the run loops with an animation-tick request pending
  runs,             \* number of Render.run calls so far
  error,            \* the error raised by the last operation ("none" when it returned)
  extraDraw,        \* render.extraDraw: the pending callback (its frame's number), Undefined when absent
  handlers,         \* the layer's handlers of 'update', in registration order
  frames,           \* number of Render.world calls so far (a frame's number is its callback's identity)
  registered,       \* the frames that registered a callback
  afterRender,      \* the frames whose afterRender was emitted, in order
  transformDepth,   \* startViewTransform applications on the context since the last setTransform
  inWorld,          \* Composite.allBodies(world)
  position,         \* body.position (body.bounds follows it)
  visible,          \* render.visible of each body and part
  isSleeping,       \* body.isSleeping
  attrsOpacity,     \* part.render.sprite.attrs.opacity
  spriteNode,       \* part.spriteNode / body.spriteNode is set
  layerNodes,       \* per entity, the nodes created for it and appended to the layer
  opacity,          \* the opacity attribute of the entity's node
  fullOpacity,      \* part.fullOpacity (Undefined when absent)
  created,          \* the entities the last operation created a node for
  updated,          \* the entities whose cached node the last operation updated
  lastOp,           \* the last operation
  made,             \* Render.create has returned a render
  hasEngine,        \* render.engine is set
  mouse,            \* render.mouse: whether it is set, and its scale and offset
  overlays,         \* the overlay options of render.options that are true
  gridBroadphase,   \* engine.broadphase.controller === Grid
  steps,            \* the steps of the last operation, in execution order
  captured,         \* per callback (by its frame's number), what its closure holds: whether its
                    \* constraints list holds the constraint, its bodies list, its event.timestamp
  path,             \* the lineTo points of the constraint drawn by the last overlay pass
  drawn,            \* the last overlay pass began a path for the constraint
  constraint,       \* the world's constraint
  pose,             \* part.position (in hundredths) and part.angle (in units of pi/3600)
  nodePos,          \* the pos attribute of the entity's node, in tenths
  nodeRotate,       \* the rotate attribute of the entity's node, in tenths of a degree
  looks,            \* number of Render.lookAt calls so far
  lookArgs,         \* the arguments of the last Render.lookAt call
  lookRepeat,       \* the last Render.lookAt call repeated the call made just before it
  timestamp,        \* engine.timing.timestamp
  shape,            \* per part: it has a sprite texture (or declared textures); part.circleRadius
  vertices,         \* per entity, the isInternal flags of its vertex ring
  nodeKind,         \* the kind of the entity's node: "sprite", "circle", "path" ("none" before it exists)
  nodeSize,         \* the size attribute of the entity's node (0 when it has none)
  nodePath,         \* the path of the entity's node: the vertices (by position in the ring) it runs over
  beforeTime,       \* event.timestamp of the last beforeRender emitted
  afterTimes,       \* event.timestamp of each afterRender emitted, in order
  overlayBodies,    \* the bodies list the last overlay pass handed to its body overlays
  debugTimestamp,   \* render.debugTimestamp (Undefined when absent)
  debugLog          \* the engine timestamps at which Render.debug recomputed its text

schedVars == <<frameRequestId, pending, runs>>
drawVars == <<extraDraw, handlers, frames, registered, afterRender,
              transformDepth, currentBackground>>
worldVars == <<inWorld, position, visible, isSleeping, attrsOpacity>>
nodeVars == <<spriteNode, layerNodes, opacity, fullOpacity, nodePos, nodeRotate,
              nodeKind, nodeSize, nodePath>>
frameVars == <<created, updated>>
\* what the engine and the caller alone write
inputVars == <<timestamp, shape, vertices>>
\* what only Render.create, Render.lookAt and the callers' inputs write
fixedVars == <<made, hasEngine, overlays, gridBroadphase, constraint, pose, looks, lookArgs,
               lookRepeat, inputVars>>
\* what only an overlay pass writes
passVars == <<path, drawn, afterTimes, overlayBodies, debugTimestamp, debugLog>>
vars == <<env, options, bounds, error, lastOp, frameVars, schedVars, drawVars, worldVars,
          nodeVars, fixedVars, mouse, steps, captured, beforeTime, passVars>>

\* ------------------------------------------------------------- helpers
\* an operation that runs no main pass and no step of a frame
NothingRendered == created' = {} /\ updated' = {} /\ steps' = <<>>

\* JavaScript truthiness of a number-or-absent field
Truthy(v) == v # Undefined /\ v # 0

\* Bounds.overlaps(boundsA, boundsB) of matter-js, as called on line 266
Overlaps(a, b) ==
  /\ Le(a.min.x, b.max.x) /\ Ge(a.max.x, b.min.x)
  /\ Ge(a.max.y, b.min.y) /\ Le(a.min.y, b.max.y)

\* mutant: the bodies removed from the world still listed
AllBodiesEvenRemoved == <<1, 2>>

\* Composite.allBodies(world), in id order
AllBodies == SelectSeq(<<1, 2>>, LAMBDA b : b \in inWorld)

\* the bounds test of the culling loop
InView(b) == Overlaps(BodyBounds(position[b]), bounds)

\* mutant: the bounds filter dropped
CulledBodiesUnfiltered == AllBodies

\* lines 262-302: the bodies the main pass and the overlays get
CulledBodies ==
  IF options.hasBounds THEN SelectSeq(AllBodies, InView) ELSE AllBodies

\* mutant: the part loop always starts at k = 1
LoopPartsSeqFromOne(b) == Tail(Parts(b))

\* for(k = body.parts.length > 1 ? 1 : 0; k < body.parts.length; k++)
LoopPartsSeq(b) == IF Len(Parts(b)) > 1 THEN Tail(Parts(b)) ELSE Parts(b)

\* ------------------------------------------------------------- node cache
\* the node state the main pass works on
NodeState == [spriteNode |-> spriteNode, layerNodes |-> layerNodes,
              opacity |-> opacity, fullOpacity |-> fullOpacity,
              nodePos |-> nodePos, nodeRotate |-> nodeRotate,
              nodeKind |-> nodeKind, nodeSize |-> nodeSize, nodePath |-> nodePath,
              created |-> {}, updated |-> {}]

\* mutant: the tenths truncated instead of rounded
RoundTenthFloor(x) == x \div 10

\* Math.round(position.x * 10) / 10, for x in hundredths: the result in tenths
\* (Math.round is floor(v + 0.5))
RoundTenth(x) == (x + 5) \div 10

\* Math.round(180 * angle * 10 / Math.PI) / 10, for the angle in units of
\* pi/3600: the result in tenths of a degree
RoundDegrees(a) == (a + 1) \div 2

\* const pos = [...], rotate = ... of the part (or of the body, for its hull)
Pos(e) == [x |-> RoundTenth(pose[e].x), y |-> RoundTenth(pose[e].y)]
Rotate(e) == RoundDegrees(pose[e].angle)

\* the numbers 1..Len(vs) of the vertices vs, in ring order
Ring(vs) == [j \in 1..Len(vs) |-> j]

\* vertices.filter(v => !v.isInternal), as vertex numbers
NonInternal(vs) == SelectSeq(Ring(vs), LAMBDA j : ~vs[j])

\* mutant: the circle branch tested before the sprite branch
BodiesShapeCircleFirst(e) ==
  IF Truthy(shape[e].circleRadius)
  THEN [kind |-> "circle", size |-> 2 * shape[e].circleRadius, path |-> <<>>]
  ELSE IF shape[e].texture
       THEN [kind |-> "sprite", size |-> 0, path |-> <<>>]
       ELSE [kind |-> "path", size |-> 0, path |-> Ring(vertices[e])]

\* the creation branches of Render.bodies (lines 583-637): a textured Sprite, else a
\* round Sprite of size 2 * circleRadius, else a Path through all the vertices
BodiesShape(e) ==
  IF shape[e].texture
  THEN [kind |-> "sprite", size |-> 0, path |-> <<>>]
  ELSE IF Truthy(shape[e].circleRadius)
       THEN [kind |-> "circle", size |-> 2 * shape[e].circleRadius, path |-> <<>>]
       ELSE [kind |-> "path", size |-> 0, path |-> Ring(vertices[e])]

\* the path of Render.bodyWireframes (lines 697-709): M through vertices[0] of the
\* unfiltered list, then L through the elements 1.. of the filtered list
WireframePath(vs) ==
  LET filtered == IF options.showInternalEdges THEN Ring(vs) ELSE NonInternal(vs)
  IN  <<1>> \o SubSeq(filtered, 2, Len(filtered))

\* the creation branch of Render.bodyWireframes (lines 696-721): always a Path
WireframeShape(e) == [kind |-> "path", size |-> 0, path |-> WireframePath(vertices[e])]

\* the creation branch of Render.bodyConvexHulls: a Path through the body's vertices
HullShape(e) == [kind |-> "path", size |-> 0, path |-> Ring(vertices[e])]

\* the shape of the node the main pass creates for e: Render.bodies creates it
\* when wireframes is off; with wireframes on, Render.bodyConvexHulls creates the
\* node of a compound body and Render.bodyWireframes the node of a part
CreatedShape(e) ==
  IF ~options.wireframes THEN BodiesShape(e)
  ELSE IF e \in Bodies /\ Len(Parts(e)) > 1 THEN HullShape(e)
  ELSE WireframeShape(e)

\* s = new Sprite() / new Path(); s.attr({..., pos, rotate});
\* part.spriteNode = s; layer.append(s)
CreateNode(n, e) ==
  [n EXCEPT !.spriteNode[e] = TRUE, !.layerNodes[e] = @ + 1,
            !.opacity[e] = DefaultOpacity,
            !.nodePos[e] = Pos(e), !.nodeRotate[e] = Rotate(e),
            !.nodeKind[e] = CreatedShape(e).kind,
            !.nodeSize[e] = CreatedShape(e).size,
            !.nodePath[e] = CreatedShape(e).path,
            !.created = @ \cup {e}]

\* mutant: the cached node's shape derived again at every frame
UpdateNodeReshape(n, e) ==
  [n EXCEPT !.nodePos[e] = Pos(e), !.nodeRotate[e] = Rotate(e),
            !.nodeKind[e] = CreatedShape(e).kind,
            !.nodeSize[e] = CreatedShape(e).size,
            !.nodePath[e] = CreatedShape(e).path,
            !.updated = @ \cup {e}]

\* s.attr({pos, rotate}) on the cached node
UpdateNode(n, e) ==
  [n EXCEPT !.nodePos[e] = Pos(e), !.nodeRotate[e] = Rotate(e),
            !.updated = @ \cup {e}]

\* mutant: the cached node ignored
NodeForNoCache(n, e) == CreateNode(n, e)

\* let s = part.spriteNode; if(s) {update} else {create}
NodeFor(n, e) == IF n.spriteNode[e] THEN UpdateNode(n, e) ELSE CreateNode(n, e)

\* if(part.render.sprite && part.render.sprite.attrs) s.attr(part.render.sprite.attrs)
SpriteAttrs(n, e) ==
  IF attrsOpacity[e] # Undefined THEN [n EXCEPT !.opacity[e] = attrsOpacity[e]] ELSE n

\* 0.5 * opacity
Half(x) == x \div 2

\* the sleeping fade at the end of both part loops
SleepingFade(n, e) ==
  IF options.showSleeping /\ isSleeping[BodyOf(e)]
  THEN IF ~Truthy(n.fullOpacity[e])
       THEN [n EXCEPT !.opacity[e] = Half(n.opacity[e]),
                      !.fullOpacity[e] = n.opacity[e]]
       ELSE n
  ELSE IF Truthy(n.fullOpacity[e])
       THEN [n EXCEPT !.opacity[e] = n.fullOpacity[e],
                      !.fullOpacity[e] = Undefined]
       ELSE n

\* one iteration of the part loop of Render.bodies, after the visibility test
BodiesPart(n, e) == SleepingFade(SpriteAttrs(NodeFor(n, e), e), e)

\* one iteration of the part loop of Render.bodyWireframes
WireframePart(n, e) == SleepingFade(NodeFor(n, e), e)

RECURSIVE BodiesParts(_, _)
BodiesParts(n, ks) ==
  IF ks = <<>> THEN n
  ELSE BodiesParts(IF visible[Head(ks)] THEN BodiesPart(n, Head(ks)) ELSE n, Tail(ks))

\* Render.bodies
RECURSIVE RenderBodies(_, _)
RenderBodies(n, bodies) ==
  IF bodies = <<>> THEN n
  ELSE RenderBodies(IF visible[Head(bodies)]
                    THEN BodiesParts(n, LoopPartsSeq(Head(bodies)))
                    ELSE n,
                    Tail(bodies))

RECURSIVE WireframeParts(_, _)
WireframeParts(n, ks) ==
  IF ks = <<>> THEN n ELSE WireframeParts(WireframePart(n, Head(ks)), Tail(ks))

\* Render.bodyWireframes
RECURSIVE BodyWireframes(_, _)
BodyWireframes(n, bodies) ==
  IF bodies = <<>> THEN n
  ELSE BodyWireframes(IF visible[Head(bodies)]
                      THEN WireframeParts(n, LoopPartsSeq(Head(bodies)))
                      ELSE n,
                      Tail(bodies))

\* Render.bodyConvexHulls
RECURSIVE BodyConvexHulls(_, _)
BodyConvexHulls(n, bodies) ==
  IF bodies = <<>> THEN n
  ELSE BodyConvexHulls(IF ~visible[Head(bodies)] \/ Len(Parts(Head(bodies))) = 1
                       THEN n
                       ELSE NodeFor(n, Head(bodies)),
                       Tail(bodies))

\* lines 304-312: the main pass
MainPass(n, bodies) ==
  IF ~options.wireframes
  THEN RenderBodies(n, bodies)
  ELSE BodyWireframes(IF options.showConvexHulls THEN BodyConvexHulls(n, bodies) ELSE n,
                      bodies)

\* ------------------------------------------------------------- the layer's 'update' handlers
\* layer.on('update', h)
LayerOn(hs, h) == Append(hs, h)

\* layer.off('update', h): the handler h of 'update' is removed
LayerOff(hs, h) == SelectSeq(hs, LAMBDA x : x # h)

\* layer.off(x) with a single argument drops the handlers of the event type x;
\* the handlers of 'update' go only when x is 'update'
LayerOffType(hs, typeIsUpdate) == IF typeIsUpdate THEN <<>> ELSE hs

\* ------------------------------------------------------------- view transform
\* Render.startViewTransform: context.scale and context.translate accumulate
StartViewTransform(d) == d + 1

\* Render.endViewTransform: context.setTransform is absolute
EndViewTransform(d) == 0

\* ------------------------------------------------------------- Render.world
\* mutant: the guard on render.extraDraw dropped
NoCallbackPendingAlways == TRUE

\* if(!render.extraDraw)
NoCallbackPending == ~Truthy(extraDraw)

\* background = options.wireframes ? options.wireframeBackground : options.background
Background == IF options.wireframes THEN "#0f0f13" ELSE "#18181d"

\* mutant: the applied background is not remembered
ApplyBackgroundForgets == currentBackground

\* _applyBackground when render.currentBackground differs
ApplyBackground == IF currentBackground # Background THEN Background ELSE currentBackground

\* constraint.pointA and constraint.pointB: world points for an anchor without a
\* body, offsets from the body's position for an anchor with one
PointA == Vec(1, 1)
PointB == Vec(3, 1)

\* Bounds.contains(bounds, point) of matter-js
Contains(b, pt) ==
  /\ Ge(pt.x, b.min.x) /\ Le(pt.x, b.max.x)
  /\ Ge(pt.y, b.min.y) /\ Le(pt.y, b.max.y)

\* Vector.add(body.position, point)
VectorAdd(p, v) == [x |-> Add(Num(p.x), v.x), y |-> Add(Num(p.y), v.y)]

\* lines 275-279: pointAWorld and pointBWorld of the constraint c
PointAWorld(c) == IF c.bodyA # 0 THEN VectorAdd(position[c.bodyA], PointA) ELSE PointA
PointBWorld(c) == IF c.bodyB # 0 THEN VectorAdd(position[c.bodyB], PointB) ELSE PointB

\* the truthiness of pointAWorld and pointBWorld: Vector.add returns an object
HasAWorld(c) == c.bodyA # 0 \/ c.hasA
HasBWorld(c) == c.bodyB # 0 \/ c.hasB

\* mutant: a single anchor in view is enough, whichever is defined
InViewConstraintEither(c) ==
  \/ HasAWorld(c) /\ Contains(bounds, PointAWorld(c))
  \/ HasBWorld(c) /\ Contains(bounds, PointBWorld(c))

\* lines 281-285: the test of the constraint culling loop
InViewConstraint(c) ==
  /\ HasAWorld(c) /\ HasBWorld(c)
  /\ Contains(bounds, PointAWorld(c)) \/ Contains(bounds, PointBWorld(c))

\* lines 269-285 and 300: whether the frame's constraint list holds the constraint
CulledConstraint ==
  IF options.hasBounds THEN InViewConstraint(constraint) ELSE TRUE

\* Mouse.setScale and Mouse.setOffset from the bounds b (lines 197-204, 291-298)
MouseFor(b) ==
  IF mouse.present
  THEN [mouse EXCEPT
          !.scale = [x |-> Div(Sub(b.max.x, b.min.x), Num(CanvasWidth)),
                     y |-> Div(Sub(b.max.y, b.min.y), Num(CanvasHeight))],
          !.offset = b.min]
  ELSE mouse

\* a callback's closure before its frame: nothing captured
NoClosure == [constraint |-> FALSE, bodies |-> <<>>, timestamp |-> 0]

\* what the closure extraDraw of this frame captures: the frame's constraints
\* and bodies lists and its event object (lines 252-254, 262-302, 315)
Closure == [constraint |-> CulledConstraint, bodies |-> CulledBodies,
            timestamp |-> timestamp]

\* mutant: a frame that finds a callback pending refreshes that callback's lists
\* and event
CaptureAlways(f) ==
  [captured EXCEPT ![IF NoCallbackPending THEN f ELSE extraDraw] = Closure]

\* the closures after frame f: a new one only inside if(!render.extraDraw)
Capture(f) == IF NoCallbackPending THEN [captured EXCEPT ![f] = Closure] ELSE captured

\* the steps of Render.world, in the order of its statements
FrameSteps ==
  <<"beforeRender">>
  \o (IF currentBackground # Background THEN <<"applyBackground">> ELSE <<>>)
  \o <<"cull">>
  \o (IF options.hasBounds THEN <<"startViewTransform">> ELSE <<>>)
  \o <<"mainPass">>
  \o (IF NoCallbackPending THEN <<"schedule">> ELSE <<>>)

\* Render.world as frame f: everything but the caller's own bookkeeping.
\* Without an engine, engine.world on line 240 raises before anything else.
WorldFrame(f) ==
  IF ~hasEngine
  THEN /\ error' = "TypeError"
       /\ NothingRendered
       /\ UNCHANGED <<drawVars, nodeVars, mouse, captured, beforeTime>>
  ELSE LET n == MainPass(NodeState, CulledBodies)
       IN  /\ error' = "none"
           /\ steps' = FrameSteps
           /\ frames' = f
           /\ currentBackground' = ApplyBackground
           /\ transformDepth' = IF options.hasBounds
                                THEN StartViewTransform(transformDepth)
                                ELSE transformDepth
           /\ mouse' = IF options.hasBounds THEN MouseFor(bounds) ELSE mouse
           /\ spriteNode' = n.spriteNode
           /\ layerNodes' = n.layerNodes
           /\ opacity' = n.opacity
           /\ fullOpacity' = n.fullOpacity
           /\ nodePos' = n.nodePos
           /\ nodeRotate' = n.nodeRotate
           /\ nodeKind' = n.nodeKind
           /\ nodeSize' = n.nodeSize
           /\ nodePath' = n.nodePath
           /\ beforeTime' = timestamp
           /\ created' = n.created
           /\ updated' = n.updated
           /\ IF NoCallbackPending
              THEN /\ handlers' = LayerOn(handlers, f)
                   /\ extraDraw' = f
                   /\ registered' = registered \cup {f}
              ELSE UNCHANGED <<handlers, extraDraw, registered>>
           /\ captured' = Capture(f)
           /\ UNCHANGED afterRender

\* a direct call of Render.world(render)
World ==
  /\ made
  /\ frames < MaxFrames
  /\ WorldFrame(frames + 1)
  /\ lastOp' = "world"
  /\ UNCHANGED <<env, options, bounds, schedVars, worldVars, fixedVars, passVars>>

\* ------------------------------------------------------------- Render.constraints
\* Common.clamp(value, min, max) of matter-js
Clamp(v, lo, hi) == IF Lt(v, lo) THEN lo ELSE IF Gt(v, hi) THEN hi ELSE v

\* Math.ceil of a finite number
Ceil(v) == 0 - ((0 - v.n) \div v.d)

\* coils = Math.ceil(Common.clamp(constraint.length / 5, 12, 20))
Coils(c) == Ceil(Clamp(Div(Num(c.length), Num(5)), Num(12), Num(20)))

\* mutant: the loop over the coils runs one turn short
CoilPointsShort(coils) ==
  [j \in 1..(coils - 2) |-> [j |-> j, of |-> coils,
                             offset |-> (IF j % 2 = 0 THEN 1 ELSE 0 - 1) * 4]]

\* for(j = 1; j < coils; j++) c.lineTo(start + delta * (j / coils) + normal * offset * 4):
\* the point j/coils of the way from start to end, moved offset * 4 along the unit normal
CoilPoints(coils) ==
  [j \in 1..(coils - 1) |-> [j |-> j, of |-> coils,
                             offset |-> (IF j % 2 = 0 THEN 1 ELSE 0 - 1) * 4]]

\* c.lineTo(end.x, end.y)
EndPoint == [j |-> 1, of |-> 1, offset |-> 0]

\* mutant: a constraint is skipped only when both its anchors are undefined
ConstraintSkippedBoth(c) == ~c.visible \/ (~c.hasA /\ ~c.hasB)

\* line 433: if(!constraint.render.visible || !constraint.pointA || !constraint.pointB) continue
ConstraintSkipped(c) == ~c.visible \/ ~c.hasA \/ ~c.hasB

\* the lineTo points Render.constraints issues for the constraint c, after
\* c.moveTo(start); none for a skipped constraint and for a pin
ConstraintPath(c) ==
  IF ConstraintSkipped(c) THEN <<>>
  ELSE IF c.type = "pin" THEN <<>>
  ELSE (IF c.type = "spring" THEN CoilPoints(Coils(c)) ELSE <<>>) \o <<EndPoint>>

\* ------------------------------------------------------------- the overlay callback
\* the executions so far of the overlay callback of frame f (each ends in its afterRender)
ExecCount(f) == Cardinality({i \in DOMAIN afterRender : afterRender[i] = f})

\* the state the callbacks of one 'update' dispatch work on
DrawState == [handlers |-> handlers, extraDraw |-> extraDraw,
              transformDepth |-> transformDepth, afterRender |-> afterRender,
              steps |-> <<>>, error |-> "none", path |-> path, drawn |-> drawn,
              afterTimes |-> afterTimes, overlayBodies |-> <<>>,
              debugTimestamp |-> debugTimestamp, debugLog |-> debugLog]

\* lines 316-338: the overlay renderers the callback calls, in the order of its statements
Overlays ==
  (IF "showBounds" \in overlays THEN <<"bounds">> ELSE <<>>)
  \o (IF "showAxes" \in overlays \/ "showAngleIndicator" \in overlays
      THEN <<"axes">> ELSE <<>>)
  \o (IF "showPositions" \in overlays THEN <<"positions">> ELSE <<>>)
  \o (IF "showVelocity" \in overlays THEN <<"velocity">> ELSE <<>>)
  \o (IF "showIds" \in overlays THEN <<"ids">> ELSE <<>>)
  \o (IF "showSeparations" \in overlays THEN <<"separations">> ELSE <<>>)
  \o (IF "showCollisions" \in overlays THEN <<"collisions">> ELSE <<>>)
  \o (IF "showVertexNumbers" \in overlays THEN <<"vertexNumbers">> ELSE <<>>)
  \o (IF "showMousePosition" \in overlays THEN <<"mousePosition">> ELSE <<>>)
  \o <<"constraints">>
  \o (IF "showBroadphase" \in overlays /\ gridBroadphase THEN <<"grid">> ELSE <<>>)
  \o (IF "showDebug" \in overlays THEN <<"debug">> ELSE <<>>)

\* the overlay renderer raises: Render.mousePosition reads mouse.position of a
\* render.mouse that is not set (line 830)
Raises(o) == o = "mousePosition" /\ ~mouse.present

\* the position in os of the first overlay that raises, 0 when none does
RECURSIVE FirstRaising(_, _)
FirstRaising(os, i) ==
  IF i > Len(os) THEN 0 ELSE IF Raises(os[i]) THEN i ELSE FirstRaising(os, i + 1)

\* the overlay renderers that are handed the closure's bodies list
BodyOverlays == {"bounds", "axes", "positions", "velocity", "ids", "vertexNumbers"}
UsesBodies(os) == \E i \in DOMAIN os : os[i] \in BodyOverlays

\* render.debugTimestamp || 0
LastDebug(t) == IF Truthy(t) THEN t ELSE 0

\* the threshold of line 371
DebugInterval == 500

\* mutant: the text recomputed at every pass
DebugDueAlways(t) == TRUE

\* line 371: engine.timing.timestamp - (render.debugTimestamp || 0) >= 500
DebugDue(t) == timestamp - LastDebug(t) >= DebugInterval

\* the closure extraDraw of frame f (lines 315-348). Nothing catches an error of
\* an overlay renderer: it ends the closure at the call that raised.
ExtraDraw(s, f) ==
  LET k == FirstRaising(Overlays, 1)
      recompute == "showDebug" \in overlays /\ DebugDue(s.debugTimestamp)
  IN  IF k > 0
      THEN [s EXCEPT !.steps = @ \o SubSeq(Overlays, 1, k),
                     !.overlayBodies = IF UsesBodies(SubSeq(Overlays, 1, k))
                                       THEN captured[f].bodies ELSE @,
                     !.error = "TypeError"]
      ELSE [s EXCEPT
              !.steps = @ \o Overlays
                          \o (IF options.hasBounds THEN <<"endViewTransform">> ELSE <<>>)
                          \o <<"off", "delete", "afterRender">>,
              !.overlayBodies = IF UsesBodies(Overlays) THEN captured[f].bodies ELSE @,
              !.path = IF captured[f].constraint THEN ConstraintPath(constraint) ELSE <<>>,
              !.drawn = captured[f].constraint /\ ~ConstraintSkipped(constraint),
              !.debugTimestamp = IF recompute THEN timestamp ELSE @,
              !.debugLog = IF recompute THEN Append(@, timestamp) ELSE @,
              !.afterTimes = Append(@, captured[f].timestamp),
              !.transformDepth = IF options.hasBounds THEN EndViewTransform(@) ELSE @,
              !.handlers = LayerOff(@, f),
              !.extraDraw = Undefined,
              !.afterRender = Append(@, f)]

\* the layer dispatches 'update' to a copy of its handler list; an error of a
\* handler ends the dispatch
RECURSIVE Dispatch(_, _)
Dispatch(s, hs) ==
  IF hs = <<>> \/ s.error # "none" THEN s
  ELSE Dispatch(ExtraDraw(s, Head(hs)), Tail(hs))

\* the drawing surface signals 'update'
Update ==
  LET s == Dispatch(DrawState, handlers)
  IN  /\ handlers' = s.handlers
      /\ extraDraw' = s.extraDraw
      /\ transformDepth' = s.transformDepth
      /\ afterRender' = s.afterRender
      /\ steps' = s.steps
      /\ path' = s.path
      /\ drawn' = s.drawn
      /\ afterTimes' = s.afterTimes
      /\ overlayBodies' = s.overlayBodies
      /\ debugTimestamp' = s.debugTimestamp
      /\ debugLog' = s.debugLog
      /\ error' = s.error
      /\ lastOp' = "update"
      /\ created' = {} /\ updated' = {}
      /\ UNCHANGED <<env, options, bounds, schedVars, worldVars, nodeVars, fixedVars,
                     mouse, captured, beforeTime, frames, registered, currentBackground>>

\* ------------------------------------------------------------- Render.run, Render.stop
\* _requestAnimationFrame(loop) for run loop l: the handle it returns
RequestHandle(l) == IF env = "native" THEN l ELSE Undefined

\* Render.run: the first turn of loop
Run ==
  /\ made
  /\ runs < MaxRuns
  /\ frames < MaxFrames
  /\ runs' = runs + 1
  /\ pending' = pending \cup {runs + 1}
  /\ frameRequestId' = RequestHandle(runs + 1)
  /\ WorldFrame(frames + 1)
  /\ lastOp' = "run"
  /\ UNCHANGED <<env, options, bounds, worldVars, fixedVars, passVars>>

\* the pending request of run loop l fires: loop requests the next tick, then renders
Tick(l) ==
  /\ l \in pending
  /\ frames < MaxFrames
  /\ frameRequestId' = RequestHandle(l)
  /\ WorldFrame(frames + 1)
  /\ lastOp' = "tick"
  /\ UNCHANGED <<env, options, bounds, pending, runs, worldVars, fixedVars, passVars>>

\* _cancelAnimationFrame(id): undefined without a native cancelAnimationFrame
CancelAnimationFrame(id) == pending \ {id}

\* Render.stop
Stop ==
  /\ made
  /\ IF Truthy(extraDraw)
     THEN /\ handlers' = LayerOffType(handlers, FALSE)
          /\ extraDraw' = Undefined
     ELSE UNCHANGED <<handlers, extraDraw>>
  /\ IF env = "native"
     THEN pending' = CancelAnimationFrame(frameRequestId) /\ error' = "none"
     ELSE pending' = pending /\ error' = "TypeError"
  /\ lastOp' = "stop"
  /\ NothingRendered
  /\ UNCHANGED <<env, options, bounds, frameRequestId, runs, worldVars, nodeVars,
                 frames, registered, afterRender, transformDepth, currentBackground,
                 fixedVars, mouse, captured, beforeTime, passVars>>

\* ------------------------------------------------------------- the callers' inputs
\* render.options[name] = v
SetOption(name, v) ==
  /\ made
  /\ options[name] # v
  /\ options' = [options EXCEPT ![name] = v]
  /\ lastOp' = "option"
  /\ NothingRendered
  /\ UNCHANGED <<env, bounds, error, schedVars, drawVars, worldVars, nodeVars,
                 fixedVars, mouse, captured, beforeTime, passVars>>

\* the engine moves a body
MoveBody(b, p) ==
  /\ position[b] # p
  /\ position' = [position EXCEPT ![b] = p]
  /\ lastOp' = "engine"
  /\ NothingRendered
  /\ UNCHANGED <<env, options, bounds, error, schedVars, drawVars, nodeVars,
                 fixedVars, mouse, captured, beforeTime, passVars,
                 inWorld, visible, isSleeping, attrsOpacity>>

\* the engine puts a body to sleep or wakes it
SetSleeping(b, v) ==
  /\ isSleeping[b] # v
  /\ isSleeping' = [isSleeping EXCEPT ![b] = v]
  /\ lastOp' = "engine"
  /\ NothingRendered
  /\ UNCHANGED <<env, options, bounds, error, schedVars, drawVars, nodeVars,
                 fixedVars, mouse, captured, beforeTime, passVars,
                 inWorld, visible, position, attrsOpacity>>

\* body.render.visible / part.render.visible = v
SetVisible(e, v) ==
  /\ visible[e] # v
  /\ visible' = [visible EXCEPT ![e] = v]
  /\ lastOp' = "engine"
  /\ NothingRendered
  /\ UNCHANGED <<env, options, bounds, error, schedVars, drawVars, nodeVars,
                 fixedVars, mouse, captured, beforeTime, passVars,
                 inWorld, position, isSleeping, attrsOpacity>>

\* World.remove / World.add of a body
SetInWorld(b, v) ==
  /\ (b \in inWorld) # v
  /\ inWorld' = IF v THEN inWorld \cup {b} ELSE inWorld \ {b}
  /\ lastOp' = "engine"
  /\ NothingRendered
  /\ UNCHANGED <<env, options, bounds, error, schedVars, drawVars, nodeVars,
                 fixedVars, mouse, captured, beforeTime, passVars,
                 position, visible, isSleeping, attrsOpacity>>

\* the engine moves or turns a part (or a compound body)
SetPose(e, p) ==
  /\ pose[e] # p
  /\ pose' = [pose EXCEPT ![e] = p]
  /\ lastOp' = "engine"
  /\ NothingRendered
  /\ UNCHANGED <<env, options, bounds, error, schedVars, drawVars, worldVars, nodeVars,
                 made, hasEngine, overlays, gridBroadphase, constraint, looks, lookArgs,
                 lookRepeat, inputVars, mouse, captured, beforeTime, passVars>>

\* Engine.update advances engine.timing.timestamp by dt
EngineStep(dt) ==
  /\ timestamp + dt <= MaxTime
  /\ timestamp' = timestamp + dt
  /\ lastOp' = "engine"
  /\ NothingRendered
  /\ UNCHANGED <<env, options, bounds, error, schedVars, drawVars, worldVars, nodeVars,
                 made, hasEngine, overlays, gridBroadphase, constraint, pose, looks,
                 lookArgs, lookRepeat, shape, vertices, mouse, captured, beforeTime,
                 passVars>>

\* the caller replaces part.vertices of e (the isInternal flags of a new ring)
SetVertices(e, vs) ==
  /\ vertices[e] # vs
  /\ vertices' = [vertices EXCEPT ![e] = vs]
  /\ lastOp' = "engine"
  /\ NothingRendered
  /\ UNCHANGED <<env, options, bounds, error, schedVars, drawVars, worldVars, nodeVars,
                 made, hasEngine, overlays, gridBroadphase, constraint, pose, looks,
                 lookArgs, lookRepeat, shape, timestamp, mouse, captured, beforeTime,
                 passVars>>

\* ------------------------------------------------------------- Render.lookAt
\* an argument that may be left out is a sequence of at most one value
Given(v) == <<v>>
NotGiven == <<>>

\* the objects Render.lookAt is given: a body (bounds and position), a bounds
\* (min and max), an object with a position, a vector
LookBody(b) == [bounds |-> Given(BodyBounds(position[b])), min |-> NotGiven,
                max |-> NotGiven, position |-> Given(Vec(position[b].x, position[b].y)),
                vector |-> Vec(0, 0)]
LookBox(x0, y0, x1, y1) == [bounds |-> NotGiven, min |-> Given(Vec(x0, y0)),
                            max |-> Given(Vec(x1, y1)), position |-> NotGiven,
                            vector |-> Vec(0, 0)]
LookPosition(x, y) == [bounds |-> NotGiven, min |-> NotGiven, max |-> NotGiven,
                       position |-> Given(Vec(x, y)), vector |-> Vec(0, 0)]
LookVector(x, y) == [bounds |-> NotGiven, min |-> NotGiven, max |-> NotGiven,
                     position |-> NotGiven, vector |-> Vec(x, y)]

\* object.bounds ? object.bounds.min : (object.min || object.position || object)
ObjectMin(o) ==
  IF o.bounds # NotGiven THEN o.bounds[1].min
  ELSE IF o.min # NotGiven THEN o.min[1]
  ELSE IF o.position # NotGiven THEN o.position[1]
  ELSE o.vector

\* object.bounds ? object.bounds.max : (object.max || object.position || object)
ObjectMax(o) ==
  IF o.bounds # NotGiven THEN o.bounds[1].max
  ELSE IF o.max # NotGiven THEN o.max[1]
  ELSE IF o.position # NotGiven THEN o.position[1]
  ELSE o.vector

\* lines 137-155: the bounds of all objects, from {min: Infinity, max: -Infinity}
RECURSIVE ObjectsBounds(_, _)
ObjectsBounds(u, objects) ==
  IF objects = <<>> THEN u
  ELSE LET lo == ObjectMin(Head(objects))
           hi == ObjectMax(Head(objects))
       IN  ObjectsBounds(
             [min |-> [x |-> IF Lt(lo.x, u.min.x) THEN lo.x ELSE u.min.x,
                       y |-> IF Lt(lo.y, u.min.y) THEN lo.y ELSE u.min.y],
              max |-> [x |-> IF Gt(hi.x, u.max.x) THEN hi.x ELSE u.max.x,
                       y |-> IF Gt(hi.y, u.max.y) THEN hi.y ELSE u.max.y]],
             Tail(objects))

EmptyBounds == [min |-> [x |-> Infinity, y |-> Infinity],
                max |-> [x |-> Neg(Infinity), y |-> Neg(Infinity)]]

\* padding = padding || {x: 0, y: 0}
Padding(p) == IF p = NotGiven THEN Vec(0, 0) ELSE Vec(p[1].x, p[1].y)

\* center = typeof center !== 'undefined' ? center : true
Center(c) == IF c = NotGiven THEN TRUE ELSE c[1]

\* mutant: the vertical scale left at 1
ScaleYOne(innerRatio, outerRatio) == Num(1)

\* lines 164-172: the scale factors
ScaleX(innerRatio, outerRatio) ==
  IF Gt(innerRatio, outerRatio) THEN Num(1) ELSE Div(outerRatio, innerRatio)
ScaleY(innerRatio, outerRatio) ==
  IF Gt(innerRatio, outerRatio) THEN Div(innerRatio, outerRatio) ELSE Num(1)

\* mutant: render.bounds.min left as it was
PositionAndSizeKeepMin(rb, u, w, h) ==
  [rb EXCEPT !.max.x = Add(rb.min.x, w), !.max.y = Add(rb.min.y, h)]

\* lines 178-181: position and size
PositionAndSize(rb, u, w, h) ==
  [rb EXCEPT !.min.x = u.min.x, !.max.x = Add(u.min.x, w),
             !.min.y = u.min.y, !.max.y = Add(u.min.y, h)]

\* render.bounds.min and .max moved by (dx, dy) (lines 184-195)
Shift(rb, dx, dy) ==
  [rb EXCEPT !.min.x = Add(@, dx), !.max.x = Add(@, dx),
             !.min.y = Add(@, dy), !.max.y = Add(@, dy)]

OneHalf == Norm(1, 2)

\* render.bounds when Render.lookAt(render, objects, padding, center) returns
LookAtBounds(rb, objects, padding, center) ==
  LET u == ObjectsBounds(EmptyBounds, objects)
      pad == Padding(padding)
      width == Add(Sub(u.max.x, u.min.x), Mul(Num(2), pad.x))
      height == Add(Sub(u.max.y, u.min.y), Mul(Num(2), pad.y))
      outerRatio == Div(Num(CanvasWidth), Num(CanvasHeight))
      innerRatio == Div(width, height)
      w == Mul(width, ScaleX(innerRatio, outerRatio))
      h == Mul(height, ScaleY(innerRatio, outerRatio))
      sized == PositionAndSize(rb, u, w, h)
      centred == IF Center(center)
                 THEN Shift(sized, Sub(Mul(width, OneHalf), Mul(w, OneHalf)),
                                   Sub(Mul(height, OneHalf), Mul(h, OneHalf)))
                 ELSE sized
  IN  Shift(centred, Neg(pad.x), Neg(pad.y))

\* Render.lookAt(render, objects, padding, center)
LookAt(objects, padding, center) ==
  /\ made
  /\ looks < MaxLooks
  /\ looks' = looks + 1
  /\ lookArgs' = [objects |-> objects, padding |-> padding, center |-> center]
  /\ lookRepeat' = (lastOp = "lookAt" /\ lookArgs' = lookArgs)
  /\ options' = [options EXCEPT !.hasBounds = TRUE]
  /\ bounds' = LookAtBounds(bounds, objects, padding, center)
  /\ mouse' = MouseFor(bounds')
  /\ error' = "none"
  /\ lastOp' = "lookAt"
  /\ NothingRendered
  /\ UNCHANGED <<env, schedVars, drawVars, worldVars, nodeVars, made, hasEngine,
                 overlays, gridBroadphase, constraint, pose, inputVars, captured,
                 beforeTime, passVars>>

\* ------------------------------------------------------------- Render.create
\* Mouse.create: scale 1, offset 0
MouseOf(present) == [present |-> present, scale |-> Vec(1, 1), offset |-> Vec(0, 0)]

\* Render.create(options), with options.engine, options.layer and options.mouse
\* given or not: options.layer.canvas on line 73 raises without a layer, and
\* nothing reads the engine
Create(withEngine, withLayer, withMouse) ==
  /\ ~made
  /\ IF withLayer
     THEN /\ made' = TRUE
          /\ hasEngine' = withEngine
          /\ mouse' = MouseOf(withMouse)
          /\ error' = "none"
     ELSE /\ error' = "TypeError"
          /\ UNCHANGED <<made, hasEngine, mouse>>
  /\ lastOp' = "create"
  /\ NothingRendered
  /\ UNCHANGED <<env, options, bounds, schedVars, drawVars, worldVars, nodeVars,
                 overlays, gridBroadphase, constraint, pose, looks, lookArgs,
                 lookRepeat, inputVars, captured, beforeTime, passVars>>

\* ------------------------------------------------------------- specifications
\* the inputs of a frame that the frame loop's specifications leave alone
DefaultConstraint == [visible |-> TRUE, hasA |-> TRUE, hasB |-> TRUE, bodyA |-> 0, bodyB |-> 0,
                      type |-> "line", length |-> 2]
\* a polygon part: no sprite texture, no circle radius
DefaultShape == [texture |-> FALSE, circleRadius |-> 0]
\* a ring of three vertices, none internal
DefaultVertices == <<FALSE, FALSE, FALSE>>
DefaultPose == [x |-> 1234, y |-> 5678, angle |-> 900]
NoLookArgs == [objects |-> <<>>, padding |-> NotGiven, center |-> NotGiven]

\* a render created with an engine and a layer
InitCreated ==
  /\ made = TRUE
  /\ hasEngine = TRUE
  /\ lastOp = "create"

\* the world of one line constraint and parts at rest
InitParts ==
  /\ pose = [e \in Entities |-> DefaultPose]
  /\ shape = [e \in Entities |-> DefaultShape]
  /\ vertices = [e \in Entities |-> DefaultVertices]
  /\ timestamp = 0

InitWorld ==
  /\ constraint = DefaultConstraint
  /\ InitParts

\* no overlay option on (the defaults of Render.create), no mouse
InitOverlays ==
  /\ overlays = {}
  /\ gridBroadphase = TRUE
  /\ mouse = MouseOf(FALSE)

\* Render.create's state, over the given environments, options and world
InitRender(envs, hasBoundsSet, wireframesSet, attrsSet) ==
  /\ steps = <<>>
  /\ captured = [f \in 1..MaxFrames |-> NoClosure]
  /\ beforeTime = 0
  /\ path = <<>>
  /\ drawn = FALSE
  /\ afterTimes = <<>>
  /\ overlayBodies = <<>>
  /\ debugTimestamp = Undefined
  /\ debugLog = <<>>
  /\ nodeKind = [e \in Entities |-> "none"]
  /\ nodeSize = [e \in Entities |-> 0]
  /\ nodePath = [e \in Entities |-> <<>>]
  /\ nodePos = [e \in Entities |-> [x |-> 0, y |-> 0]]
  /\ nodeRotate = [e \in Entities |-> 0]
  /\ looks = 0
  /\ lookArgs = NoLookArgs
  /\ lookRepeat = FALSE
  /\ env \in envs
  /\ options \in [hasBounds : hasBoundsSet, wireframes : wireframesSet,
                  showConvexHulls : {FALSE}, showSleeping : {TRUE},
                  showInternalEdges : {FALSE}]
  /\ bounds = CreateBounds
  /\ currentBackground = "none"
  /\ frameRequestId = Null
  /\ pending = {}
  /\ runs = 0
  /\ error = "none"
  /\ extraDraw = Undefined
  /\ handlers = <<>>
  /\ frames = 0
  /\ registered = {}
  /\ afterRender = <<>>
  /\ transformDepth = 0
  /\ inWorld = Bodies
  /\ position = [b \in Bodies |-> [x |-> 1, y |-> 1]]
  /\ visible = [e \in Entities |-> TRUE]
  /\ isSleeping = [b \in Bodies |-> FALSE]
  /\ attrsOpacity \in [Entities -> attrsSet]
  /\ spriteNode = [e \in Entities |-> FALSE]
  /\ layerNodes = [e \in Entities |-> 0]
  /\ opacity = [e \in Entities |-> Undefined]
  /\ fullOpacity = [e \in Entities |-> Undefined]
  /\ created = {}
  /\ updated = {}

InitWith(envs, hasBoundsSet, wireframesSet, attrsSet) ==
  /\ InitRender(envs, hasBoundsSet, wireframesSet, attrsSet)
  /\ InitCreated
  /\ InitWorld
  /\ InitOverlays

\* the frame loop: Render.run, its ticks, Render.world, 'update', Render.stop
Init == InitWith({"native", "fallback"}, BOOLEAN, {TRUE}, {Undefined})

Next ==
  \/ World
  \/ Update
  \/ Run
  \/ \E l \in 1..MaxRuns : Tick(l)
  \/ Stop
  \/ \E v \in BOOLEAN : SetOption("hasBounds", v)

Spec == Init /\ [][Next]_vars

\* the node cache: frames over a changing world and changing modes
InitNodes == InitWith({"native"}, BOOLEAN, BOOLEAN, {Undefined})

NextNodes ==
  \/ World
  \/ \E name \in {"hasBounds", "wireframes", "showConvexHulls"}, v \in BOOLEAN :
       SetOption(name, v)
  \/ \E p \in Positions : MoveBody(1, p)
  \/ \E e \in Entities, v \in BOOLEAN : SetVisible(e, v)
  \/ \E v \in BOOLEAN : SetInWorld(2, v)

SpecNodes == InitNodes /\ [][NextNodes]_vars

\* the sleeping fade: frames over bodies falling asleep and waking
InitFade == InitWith({"native"}, {FALSE}, BOOLEAN, AttrOpacities)

NextFade ==
  \/ World
  \/ \E name \in {"wireframes", "showSleeping"}, v \in BOOLEAN : SetOption(name, v)
  \/ \E b \in Bodies, v \in BOOLEAN : SetSleeping(b, v)

SpecFade == InitFade /\ [][NextFade]_vars

\* creation: Render.create with and without an engine, a layer and a mouse,
\* then frames of the render it returned
InitCreate ==
  /\ InitRender({"native"}, BOOLEAN, {TRUE}, {Undefined})
  /\ InitWorld
  /\ InitOverlays
  /\ made = FALSE
  /\ hasEngine = FALSE
  /\ lastOp = "none"

NextCreate ==
  \/ \E withEngine, withLayer, withMouse \in BOOLEAN : Create(withEngine, withLayer, withMouse)
  \/ World
  \/ Update
  \/ \E v \in BOOLEAN : SetOption("hasBounds", v)

SpecCreate == InitCreate /\ [][NextCreate]_vars

\* the object lists, paddings and center flags Render.lookAt is called with:
\* no object, a position, a vector, the two boxes 10 wide at (0,0) and (90,90),
\* a wide box, a body, a body and a box, a box of no height
LookLists ==
  {<<>>,
   <<LookPosition(3, 3)>>,
   <<LookVector(0, 4)>>,
   <<LookBox(0, 0, 10, 10), LookBox(90, 90, 100, 100)>>,
   <<LookBox(1, 1, 5, 2)>>,
   <<LookBody(1)>>,
   <<LookBody(1), LookBox(1, 1, 5, 2)>>,
   <<LookBox(0, 2, 6, 2)>>}
LookPaddings == {NotGiven, Given([x |-> 2, y |-> 1])}
LookCenters == {NotGiven, Given(FALSE)}

\* the viewport: Render.lookAt calls between frames, with and without a mouse
InitLook ==
  /\ InitRender({"native"}, {FALSE}, {TRUE}, {Undefined})
  /\ InitCreated
  /\ InitWorld
  /\ overlays = {}
  /\ gridBroadphase = TRUE
  /\ mouse \in {MouseOf(TRUE), MouseOf(FALSE)}

NextLook ==
  \/ \E objects \in LookLists, padding \in LookPaddings, center \in LookCenters :
       LookAt(objects, padding, center)
  \/ World
  \/ Update

SpecLook == InitLook /\ [][NextLook]_vars

\* the poses the engine gives a part: (12.34, 56.78) at pi/4, (-0.25, 0.15) at
\* -pi/3600 (ties of the rounding), (0, 0.04) at 3 pi/3600
TiePose == [x |-> 0 - 25, y |-> 15, angle |-> 0 - 1]
Poses == {DefaultPose, TiePose, [x |-> 0, y |-> 4, angle |-> 3]}

\* the node poses: frames in both modes over parts that move and turn
InitPose == InitWith({"native"}, {FALSE}, BOOLEAN, {Undefined})

NextPose ==
  \/ World
  \/ \E e \in Entities, p \in Poses : SetPose(e, p)
  \/ \E name \in {"wireframes", "showConvexHulls"}, v \in BOOLEAN : SetOption(name, v)

SpecPose == InitPose /\ [][NextPose]_vars

\* the constraints of the world: a line, a spring or a pin of any length up to
\* MaxLength, and of length 200
Constraints ==
  [visible : BOOLEAN, hasA : {TRUE}, hasB : {TRUE}, bodyA : {0}, bodyB : {0},
   type : {"line", "spring", "pin"}, length : (0..MaxLength) \cup {200}]

\* the constraint renderer: overlay passes over a world with one constraint
InitSpring ==
  /\ InitRender({"native"}, {FALSE}, {TRUE}, {Undefined})
  /\ InitCreated
  /\ InitOverlays
  /\ InitParts
  /\ constraint \in Constraints

NextSpring ==
  \/ World
  \/ Update

SpecSpring == InitSpring /\ [][NextSpring]_vars

\* the overlay options of render.options
OverlayOptions ==
  {"showBounds", "showAxes", "showAngleIndicator", "showPositions", "showVelocity",
   "showIds", "showSeparations", "showCollisions", "showVertexNumbers",
   "showMousePosition", "showBroadphase", "showDebug"}

\* the overlay pass: frames and 'update' signals of a layer that keeps
\* signalling 'update', over the overlay options (none, one, two or all of them
\* on), with and without a mouse; Render.stop is not called
InitOverlay ==
  /\ InitRender({"native"}, BOOLEAN, {TRUE}, {Undefined})
  /\ InitCreated
  /\ InitWorld
  /\ overlays \in {o \in SUBSET OverlayOptions : Cardinality(o) <= 2 \/ o = OverlayOptions}
  /\ gridBroadphase \in BOOLEAN
  /\ mouse \in {MouseOf(TRUE), MouseOf(FALSE)}

NextOverlay ==
  \/ World
  \/ Update

SpecOverlay == InitOverlay /\ [][NextOverlay]_vars /\ WF_vars(Update)

\* constraints with anchors given or not, unowned or owned by body 1 (an owned
\* anchor always has its offset: Constraint.create of matter-js defaults it)
AnchorInputs ==
  {c \in [visible : BOOLEAN, hasA : BOOLEAN, hasB : BOOLEAN, bodyA : {0, 1},
          bodyB : {0, 1}, type : {"line"}, length : {2}] :
     (c.bodyA # 0 => c.hasA) /\ (c.bodyB # 0 => c.hasB)}

InitConstraint ==
  /\ InitRender({"native"}, BOOLEAN, {TRUE}, {Undefined})
  /\ InitCreated
  /\ InitOverlays
  /\ InitParts
  /\ constraint \in AnchorInputs

NextConstraint ==
  \/ World
  \/ Update
  \/ \E v \in BOOLEAN : SetOption("hasBounds", v)
  \/ \E p \in {[x |-> 1, y |-> 1], [x |-> 5, y |-> 1]} : MoveBody(1, p)

SpecConstraint == InitConstraint /\ [][NextConstraint]_vars

\* parts with and without a sprite texture and a circle radius
ShapeInputs == [texture : BOOLEAN, circleRadius : {0, 2}]
\* rings of three vertices: none internal, the first internal, the second internal
VertexRings == {DefaultVertices, <<TRUE, FALSE, FALSE>>, <<FALSE, TRUE, FALSE>>}

\* node shapes: frames in both modes over parts of every kind, with the
\* vertices of part 1 replaced between frames
InitShape ==
  /\ InitRender({"native"}, {FALSE}, BOOLEAN, {Undefined})
  /\ InitCreated
  /\ InitOverlays
  /\ constraint = DefaultConstraint
  /\ pose = [e \in Entities |-> DefaultPose]
  /\ timestamp = 0
  /\ shape \in {sh \in [Entities -> ShapeInputs] : sh[2] = DefaultShape}
  /\ vertices \in {vs \in [Entities -> VertexRings] : vs[2] = DefaultVertices /\ vs[3] = vs[1]}

NextShape ==
  \/ World
  \/ \E name \in {"wireframes", "showInternalEdges"}, v \in BOOLEAN : SetOption(name, v)
  \/ \E vs \in VertexRings : SetVertices(1, vs)
  \/ \E v \in BOOLEAN : SetVisible(1, v)

SpecShape == InitShape /\ [][NextShape]_vars

\* the debug text: overlay passes with showDebug on while the engine's clock advances
InitDebug ==
  /\ InitRender({"native"}, {FALSE}, {TRUE}, {Undefined})
  /\ InitCreated
  /\ InitWorld
  /\ overlays = {"showDebug"}
  /\ gridBroadphase = TRUE
  /\ mouse = MouseOf(FALSE)

NextDebug ==
  \/ World
  \/ Update
  \/ \E dt \in {200, 300} : EngineStep(dt)

SpecDebug == InitDebug /\ [][NextDebug]_vars

\* the callback's snapshot: frames and overlay passes with a body overlay on,
\* while the clock advances, body 1 moves and the clipping is switched
InitSnapshot ==
  /\ InitRender({"native"}, BOOLEAN, {TRUE}, {Undefined})
  /\ InitCreated
  /\ InitWorld
  /\ overlays = {"showBounds"}
  /\ gridBroadphase = TRUE
  /\ mouse = MouseOf(FALSE)

NextSnapshot ==
  \/ World
  \/ Update
  \/ EngineStep(500)
  \/ \E v \in BOOLEAN : SetOption("hasBounds", v)
  \/ \E p \in {[x |-> 1, y |-> 1], [x |-> 5, y |-> 1]} : MoveBody(1, p)

SpecSnapshot == InitSnapshot /\ [][NextSnapshot]_vars

\* ------------------------------------------------------------- claims
\* C1: at most one overlay callback is registered on the layer's 'update' signal
\* at any time, across Render.world, 'update' and Render.stop.
C1_AtMostOneCallback == Len(handlers) <= 1

\* C2, as claimed: once no callback is left registered, every Render.world call
\* so far has had exactly one execution of the overlay callback of its frame.
C2_ExactlyOncePerFrame ==
  handlers = <<>> => \A f \in 1..frames : ExecCount(f) = 1

\* the occurrences of f in a sequence
Count(seq, f) == Cardinality({i \in DOMAIN seq : seq[i] = f})

\* C2, amended: the overlay pass runs at most once per frame. Every callback is
\* registered at most once and executes at most once, a frame that registered no
\* callback has no execution, and a Render.world call made while a callback is
\* pending registers none.
C2_AtMostOncePerFrame ==
  [][/\ \A f \in 1..MaxFrames :
          /\ Count(handlers', f) + Count(afterRender', f) <= 1
          /\ (f \notin registered' => Count(afterRender', f) = 0)
     /\ (frames' # frames /\ Truthy(extraDraw)
           => handlers' = handlers /\ extraDraw' = extraDraw)
     /\ (frames' # frames /\ ~Truthy(extraDraw)
           => handlers' = Append(handlers, frames') /\ extraDraw' = frames')]_vars

\* C2 witness: two frames before one 'update'; the first frame's callback ran
\* once and the second frame registered none.
C2_Witness ==
  /\ frames = 2
  /\ registered = {1}
  /\ afterRender = <<1>>
  /\ handlers = <<>>

\* C3: when Render.stop returns, no overlay callback of the render is registered
\* on the layer.
C3_StopDeregisters == lastOp = "stop" => handlers = <<>>

\* C4: when Render.stop returns it has raised no error and no animation-tick
\* request of the render is pending.
C4_StopCancels == lastOp = "stop" => error = "none" /\ pending = {}

\* C5: the view transform is never applied twice without a revert in between,
\* and it is not left applied once no overlay callback remains to revert it.
C5_TransformReverted ==
  /\ transformDepth <= 1
  /\ (handlers = <<>> => transformDepth = 0)

\* the parts: the single-part body 1 and the part of body 2 (entity 2 has only a hull)
PartEntities == {1, 3}

\* the nodes appended to the layer
NodeCount == layerNodes[1] + layerNodes[2] + layerNodes[3]

\* the nodes appended to the layer for parts (hull nodes left out)
PartNodeCount == layerNodes[1] + layerNodes[3]

\* the currently visible parts: of a body of the world, body and part flagged
\* visible, and in view when the bounds clip
VisibleParts ==
  {e \in PartEntities :
     /\ BodyOf(e) \in inWorld
     /\ visible[BodyOf(e)] /\ visible[e]
     /\ (options.hasBounds => InView(BodyOf(e)))}

\* C6: every entity (part, or compound body for its hull) has at most one node
\* ever created and appended to the layer; a frame that updates an entity's
\* cached node creates no node for it.
C6_OneNodePerEntity ==
  \A e \in Entities :
    /\ layerNodes[e] <= 1
    /\ (e \in updated => layerNodes[e] = 1 /\ e \notin created)

\* C6 witness: a later frame in wireframe mode with hulls found the cached nodes
\* of both parts and of the hull.
C6_Witness ==
  /\ lastOp = "world"
  /\ frames >= 2
  /\ updated = Entities

\* C7, as claimed: after every frame the number of cached nodes equals the number
\* of currently visible parts (counting the nodes of parts only, not the hulls).
C7_CountEqualsVisible == lastOp = "world" => PartNodeCount = Cardinality(VisibleParts)

\* C7, amended: after every frame each currently visible part has exactly one
\* cached node, so the node count is at least the number of visible parts, and
\* it never exceeds the number of entities (parts and compound hulls).
C7_VisiblePartsCached ==
  lastOp = "world" =>
    /\ \A e \in VisibleParts : layerNodes[e] = 1
    /\ Cardinality(VisibleParts) <= NodeCount
    /\ NodeCount <= Cardinality(Entities)

\* C7 witness: after a frame, body 1 is not visible and keeps its node while the
\* visible part of body 2 has its own.
C7_Witness ==
  /\ lastOp = "world"
  /\ VisibleParts = {3}
  /\ layerNodes[1] = 1
  /\ NodeCount > Cardinality(VisibleParts)

\* C8: in bounds-clipped mode a frame creates or updates a node only for
\* entities of bodies whose bounding box overlaps render.bounds.
C8_CulledBodiesUntouched ==
  (lastOp = "world" /\ options.hasBounds) =>
    \A e \in created \cup updated : InView(BodyOf(e))

\* C8 witness: a bounds-clipped frame left alone the cached node of body 1, which
\* is visible and out of view, and updated the part of body 2.
C8_Witness ==
  /\ lastOp = "world"
  /\ options.hasBounds
  /\ 1 \in inWorld /\ visible[1] /\ ~InView(1)
  /\ spriteNode[1] /\ 1 \notin updated
  /\ 3 \in updated

\* C9: after every frame that renders a part of a sleeping body with showSleeping
\* on (the first such frame or a later one), the node's opacity is half of the
\* remembered pre-fade opacity.
C9_FadeIdempotent ==
  lastOp = "world" =>
    \A e \in (created \cup updated) \cap PartEntities :
      (options.showSleeping /\ isSleeping[BodyOf(e)]) => 2 * opacity[e] = fullOpacity[e]

\* C10, as claimed: a frame that renders a part with a remembered pre-fade
\* opacity while its body is awake sets the node's opacity to the remembered
\* value and clears the remembered value.
C10_RestoreAndClear ==
  [][\A e \in PartEntities :
       (/\ frames' # frames
        /\ e \in created' \cup updated'
        /\ fullOpacity[e] # Undefined
        /\ ~isSleeping[BodyOf(e)])
       => opacity'[e] = fullOpacity[e] /\ fullOpacity'[e] = Undefined]_vars

\* the last operation was a Render.world call that rendered a frame
FrameRendered == lastOp \in {"world", "run", "tick"} /\ error = "none"

\* the position of a step in a sequence of steps, 0 when absent
StepIndex(seq, name) ==
  IF \E i \in DOMAIN seq : seq[i] = name
  THEN CHOOSE i \in DOMAIN seq : seq[i] = name
  ELSE 0

\* C11: every Render.world call emits beforeRender before any other step of the
\* frame, culls before the main pass and schedules the overlay callback after
\* it; and while the layer keeps signalling 'update' and Render.stop is not
\* called, every emitted beforeRender is eventually followed by an afterRender.
C11_BeforeThenAfter ==
  /\ [](FrameRendered =>
          /\ Head(steps) = "beforeRender"
          /\ StepIndex(steps, "cull") > 1
          /\ StepIndex(steps, "mainPass") > StepIndex(steps, "cull")
          /\ (StepIndex(steps, "schedule") > 0
                => StepIndex(steps, "schedule") > StepIndex(steps, "mainPass")))
  /\ \A n \in 0..MaxFrames :
       (FrameRendered /\ Len(afterRender) = n) ~> (Len(afterRender) > n)

\* C12: Render.create returns no render when the engine or the layer is
\* missing: every render it returned has its engine, and no Render.world call
\* on a created render raises for want of one.
C12_CreateFailsFast ==
  /\ made => hasEngine
  /\ lastOp = "world" => error = "none"

\* a dispatch of 'update' has run the overlay callback
OverlayPassRan == lastOp = "update" /\ steps # <<>>

\* C13: when an overlay renderer fails during the overlay pass, the overlays
\* after it still run (the constraint renderer among them), the view transform
\* is still reverted, the callback is deregistered with its token cleared, and
\* afterRender is emitted.
C13_OverlayFailureIsolated ==
  OverlayPassRan =>
    /\ StepIndex(steps, "constraints") > 0
    /\ (options.hasBounds => transformDepth = 0)
    /\ handlers = <<>>
    /\ ~Truthy(extraDraw)
    /\ afterRender # <<>>

\* the steps of the overlay callback in the order the claim fixes
FixedOrder ==
  <<"bounds", "axes", "positions", "velocity", "ids", "separations", "collisions",
    "vertexNumbers", "mousePosition", "constraints", "grid", "debug",
    "endViewTransform", "off", "delete", "afterRender">>

\* the overlay renderers the options turn on
EnabledOverlays ==
  {FixedOrder[i] : i \in {i \in 1..12 :
     \/ i = 1 /\ "showBounds" \in overlays
     \/ i = 2 /\ ("showAxes" \in overlays \/ "showAngleIndicator" \in overlays)
     \/ i = 3 /\ "showPositions" \in overlays
     \/ i = 4 /\ "showVelocity" \in overlays
     \/ i = 5 /\ "showIds" \in overlays
     \/ i = 6 /\ "showSeparations" \in overlays
     \/ i = 7 /\ "showCollisions" \in overlays
     \/ i = 8 /\ "showVertexNumbers" \in overlays
     \/ i = 9 /\ "showMousePosition" \in overlays
     \/ i = 10
     \/ i = 11 /\ "showBroadphase" \in overlays /\ gridBroadphase
     \/ i = 12 /\ "showDebug" \in overlays}}

\* C20: an overlay pass runs exactly the enabled overlays and the constraint
\* renderer, in the fixed order, then the view-transform revert (when the
\* bounds clip), the deregistration and the afterRender emission, afterRender
\* last.
C20_FixedOrder ==
  OverlayPassRan =>
    /\ \A i, j \in DOMAIN steps :
         i < j => StepIndex(FixedOrder, steps[i]) < StepIndex(FixedOrder, steps[j])
    /\ \A o \in EnabledOverlays : StepIndex(steps, o) > 0
    /\ \A i \in DOMAIN steps :
         StepIndex(FixedOrder, steps[i]) <= 12 => steps[i] \in EnabledOverlays
    /\ StepIndex(steps, "off") > 0
    /\ StepIndex(steps, "delete") > 0
    /\ (options.hasBounds => StepIndex(steps, "endViewTransform") > 0)
    /\ steps[Len(steps)] = "afterRender"

\* the smallest and the largest of a non-empty set of finite numbers
Least(S) == CHOOSE v \in S : \A w \in S : Le(v, w)
Greatest(S) == CHOOSE v \in S : \A w \in S : Ge(v, w)

\* the union bounding box of the objects of the last Render.lookAt call
LookedAt == {lookArgs.objects[i] : i \in DOMAIN lookArgs.objects}
UnionMinX == Least({ObjectMin(o).x : o \in LookedAt})
UnionMinY == Least({ObjectMin(o).y : o \in LookedAt})
UnionMaxX == Greatest({ObjectMax(o).x : o \in LookedAt})
UnionMaxY == Greatest({ObjectMax(o).y : o \in LookedAt})

\* the last operation was a centred Render.lookAt on objects whose union box has
\* a positive width and height (the paddings are non-negative)
CentredLook ==
  /\ lastOp = "lookAt"
  /\ Center(lookArgs.center)
  /\ LookedAt # {}
  /\ Lt(UnionMinX, UnionMaxX)
  /\ Lt(UnionMinY, UnionMaxY)

\* C14: a centred Render.lookAt on objects with a union box of positive width
\* and height leaves render.bounds with the canvas's width/height ratio and
\* with the midpoint of the union box.
C14_RatioAndMidpoint ==
  CentredLook =>
    /\ Mul(Sub(bounds.max.x, bounds.min.x), Num(CanvasHeight))
         = Mul(Sub(bounds.max.y, bounds.min.y), Num(CanvasWidth))
    /\ Lt(bounds.min.x, bounds.max.x)
    /\ Add(bounds.min.x, bounds.max.x) = Add(UnionMinX, UnionMaxX)
    /\ Add(bounds.min.y, bounds.max.y) = Add(UnionMinY, UnionMaxY)

\* C14 witness: the two boxes at (0,0) and (90,90) fitted with no padding: the
\* bounds are 400/3 wide and 100 high around (50, 50)
C14_Witness ==
  /\ CentredLook
  /\ lookArgs.objects = <<LookBox(0, 0, 10, 10), LookBox(90, 90, 100, 100)>>
  /\ lookArgs.padding = NotGiven
  /\ Sub(bounds.max.x, bounds.min.x) = Norm(400, 3)
  /\ Sub(bounds.max.y, bounds.min.y) = Num(100)

\* C15: render.bounds always has max.x >= min.x and max.y >= min.y, and only
\* Render.lookAt changes render.bounds.
C15_BoundsOrdered ==
  /\ [](Ge(bounds.max.x, bounds.min.x) /\ Ge(bounds.max.y, bounds.min.y))
  /\ [][bounds' # bounds => lastOp' = "lookAt"]_vars

\* C16: a Render.lookAt call that repeats the call made just before it (same
\* objects, padding and center) leaves render.bounds, options.hasBounds and the
\* mouse's scale and offset as the first call left them.
C16_LookAtIdempotent ==
  [][(lastOp = "lookAt" /\ lastOp' = "lookAt" /\ lookArgs' = lookArgs)
       => /\ bounds' = bounds
          /\ options'.hasBounds = options.hasBounds
          /\ mouse' = mouse]_vars

\* C16 witness: a repeated call on a render with a mouse, the bounds moved away
\* from the canvas's
C16_Witness ==
  /\ lastOp = "lookAt"
  /\ lookRepeat
  /\ looks = 2
  /\ mouse.present
  /\ bounds # CreateBounds

\* r tenths is x hundredths rounded to one decimal place: no tenth is nearer
IsRoundedTenth(r, x) == Abs(10 * r - x) <= 5

\* r tenths of a degree is the angle a (in units of pi/3600, a twentieth of a
\* degree) rounded to one decimal place of a degree
IsRoundedDegrees(r, a) == Abs(2 * r - a) <= 1

\* C17: after every frame, the node of each entity the frame created a node for
\* or updated the cached node of has pos equal to the position rounded to one
\* decimal place per axis and rotate equal to the angle in degrees rounded to
\* one decimal place; (12.34, 56.78) and pi/4 give (12.3, 56.8) and 45.0.
C17_PoseQuantized ==
  lastOp = "world" =>
    \A e \in created \cup updated :
      /\ IsRoundedTenth(nodePos[e].x, pose[e].x)
      /\ IsRoundedTenth(nodePos[e].y, pose[e].y)
      /\ IsRoundedDegrees(nodeRotate[e], pose[e].angle)
      /\ (pose[e] = [x |-> 1234, y |-> 5678, angle |-> 900]
            => nodePos[e] = [x |-> 123, y |-> 568] /\ nodeRotate[e] = 450)

\* C17 witness: a later frame updated the cached node of body 1, moved to a tie
\* of the rounding, and the node of the part of body 2 at (12.34, 56.78), pi/4
C17_Witness ==
  /\ lastOp = "world"
  /\ frames >= 2
  /\ {1, 3} \subseteq updated
  /\ pose[1] = TiePose
  /\ nodePos[1] = [x |-> 0 - 2, y |-> 2]
  /\ nodeRotate[1] = 0
  /\ nodePos[3] = [x |-> 123, y |-> 568]
  /\ nodeRotate[3] = 450

\* ceil(clamp(L / 5, 12, 20)) for a whole length L
ExpectedCoils(L) ==
  IF L <= 60 THEN 12
  ELSE IF L >= 100 THEN 20
  ELSE CHOOSE c \in 12..20 : 5 * c >= L /\ 5 * (c - 1) < L

\* the last overlay pass drew the world's spring
SpringDrawn ==
  /\ OverlayPassRan
  /\ error = "none"
  /\ constraint.type = "spring"
  /\ constraint.visible

\* C18: for a spring of length L the constraint renderer issues
\* ceil(clamp(L / 5, 12, 20)) line segments from the start anchor (12 for
\* L = 40, 20 for L = 200); the j-th of them ends j/coils of the way to the end
\* anchor, 4 units off the line, on alternating sides starting with -4; the
\* last ends on the end anchor.
C18_SpringCoils ==
  SpringDrawn =>
    LET coils == ExpectedCoils(constraint.length)
    IN  /\ Len(path) = coils
        /\ \A j \in 1..(coils - 1) :
             path[j] = [j |-> j, of |-> coils, offset |-> IF j % 2 = 1 THEN 0 - 4 ELSE 4]
        /\ path[coils] = [j |-> 1, of |-> 1, offset |-> 0]
        /\ (constraint.length = 40 => Len(path) = 12)
        /\ (constraint.length = 200 => Len(path) = 20)

\* C18 witness: a spring of length 73 drawn with 15 segments
C18_Witness ==
  /\ SpringDrawn
  /\ constraint.length = 73
  /\ Len(path) = 15
  /\ path[1].offset = 0 - 4
  /\ path[14].offset = 4

\* C19: a Render.world call and an overlay pass leave every field of every
\* body, part and constraint of the world as it was: none is added (the cached
\* node, the remembered opacity), removed or modified.
C19_WorldReadOnly ==
  [][(frames' # frames \/ lastOp' = "update")
       => /\ spriteNode' = spriteNode
          /\ fullOpacity' = fullOpacity
          /\ UNCHANGED <<worldVars, pose, constraint>>]_vars

\* ------------------------------------------------------------- C21
\* an overlay pass ran to its end; its callback is the last one that emitted afterRender
PassCompleted == lastOp = "update" /\ error = "none" /\ steps # <<>>
LastPass == afterRender[Len(afterRender)]

\* C21, as claimed: of the constraints handed to it, Render.constraints skips a
\* constraint exactly when its render.visible flag is false or both of its anchors
\* are undefined: a visible constraint with at least one defined anchor is drawn.
C21_SkippedIffBothUndefined ==
  (PassCompleted /\ captured[LastPass].constraint) =>
    (drawn <=> (constraint.visible /\ (constraint.hasA \/ constraint.hasB)))

\* C21, amended: of the constraints handed to it, Render.constraints skips a
\* constraint exactly when its render.visible flag is false or at least one of its
\* anchors is undefined: only a visible constraint with both anchors defined is drawn.
C21_SkippedIffEitherUndefined ==
  (PassCompleted /\ captured[LastPass].constraint) =>
    (drawn <=> (constraint.visible /\ constraint.hasA /\ constraint.hasB))

\* C21 witness: a pass was handed a visible constraint with only pointA defined
\* and did not draw it.
C21_Witness ==
  /\ PassCompleted
  /\ captured[LastPass].constraint
  /\ constraint.visible /\ constraint.hasA /\ ~constraint.hasB
  /\ ~drawn

\* ------------------------------------------------------------- C22
\* the kind the precedence sprite, circle, polygon gives the part e
PrecedenceKind(e) ==
  IF shape[e].texture THEN "sprite"
  ELSE IF shape[e].circleRadius # 0 THEN "circle" ELSE "path"

\* the node of e has the shape the precedence gives it: a quad sprite, a rounded
\* node of size 2 * radius, or a closed path over the whole vertex ring
FollowsPrecedence(e) ==
  /\ nodeKind[e] = PrecedenceKind(e)
  /\ nodeKind[e] = "circle" => nodeSize[e] = 2 * shape[e].circleRadius
  /\ nodeKind[e] = "path" => nodePath[e] = [j \in 1..Len(vertices[e]) |-> j]

\* C22, as claimed: whenever a frame creates the node of a part, its kind follows
\* the precedence sprite, then circle, then polygon.
C22_KindByPrecedence ==
  lastOp = "world" => \A e \in created \cap PartEntities : FollowsPrecedence(e)

\* C22, amended: a frame of the full-featured mode (wireframes off) creates the
\* node of a part by the precedence sprite, circle, polygon; a frame of the
\* wireframe mode creates a path node for every part, whatever its texture or radius.
C22_KindByPrecedenceUnlessWireframes ==
  lastOp = "world" =>
    \A e \in created \cap PartEntities :
      IF options.wireframes THEN nodeKind[e] = "path" /\ nodeSize[e] = 0
      ELSE FollowsPrecedence(e)

\* C22 witness: one full-featured frame created a sprite node for a textured part
\* that also has a radius, and a rounded node for a part with a radius only.
C22_Witness ==
  /\ lastOp = "world" /\ ~options.wireframes
  /\ created = PartEntities
  /\ shape[1].texture /\ shape[1].circleRadius # 0 /\ nodeKind[1] = "sprite"
  /\ ~shape[3].texture /\ nodeKind[3] = "circle" /\ nodeSize[3] = 4

\* ------------------------------------------------------------- C26
\* the numbers of the vertices of vs not flagged internal, in ring order
Outline(vs) == SelectSeq([j \in 1..Len(vs) |-> j], LAMBDA j : ~vs[j])

\* C26: a wireframe frame with showInternalEdges off creates the path of a part
\* through exactly its non-internal vertices, in ring order, whichever vertex is
\* flagged, the first one included.
C26_OutlineSkipsInternal ==
  (lastOp = "world" /\ options.wireframes /\ ~options.showInternalEdges) =>
    \A e \in created \cap PartEntities : nodePath[e] = Outline(vertices[e])

\* ------------------------------------------------------------- C28
\* C28: once the node of an entity exists, no step changes its kind, its size or
\* its path, whatever the mode, showInternalEdges or the part's vertices become.
C28_ShapeDerivedOnce ==
  [][\A e \in Entities :
       spriteNode[e] =>
         /\ spriteNode'[e]
         /\ nodeKind'[e] = nodeKind[e]
         /\ nodeSize'[e] = nodeSize[e]
         /\ nodePath'[e] = nodePath[e]]_vars

\* C28 witness: a wireframe frame with internal edges shown updated the cached
\* sprite node of part 1 after its vertices were replaced: the node is still the
\* sprite the full-featured mode created.
C28_Witness ==
  /\ lastOp = "world"
  /\ 1 \in updated
  /\ options.wireframes /\ options.showInternalEdges
  /\ nodeKind[1] = "sprite"
  /\ vertices[1] # DefaultVertices
  /\ nodeKind[3] = "path" /\ nodePath[3] # Outline(vertices[3]) /\ 3 \in updated

\* ------------------------------------------------------------- C23
\* the last operation was a frame that built the callback now pending
FrameRegistered == lastOp = "world" /\ error = "none" /\ extraDraw = frames

\* an anchor resolved to world coordinates: the anchor plus the owning body's
\* position, the literal anchor when unowned
Resolved(owner, point) ==
  IF owner = 0 THEN point
  ELSE [x |-> Add(Num(position[owner].x), point.x),
        y |-> Add(Num(position[owner].y), point.y)]
ResolvedA == Resolved(constraint.bodyA, PointA)
ResolvedB == Resolved(constraint.bodyB, PointB)

\* the point lies within render.bounds
Within(pt) ==
  /\ Le(bounds.min.x, pt.x) /\ Le(pt.x, bounds.max.x)
  /\ Le(bounds.min.y, pt.y) /\ Le(pt.y, bounds.max.y)

\* with bounds-clipped mode off the callback gets every constraint and every body
PassedUnfiltered ==
  /\ captured[frames].constraint
  /\ captured[frames].bodies = SelectSeq(<<1, 2>>, LAMBDA b : b \in inWorld)

\* C23, as claimed: a bounds-clipped frame passes the constraint to the overlay
\* pass if and only if at least one of its anchors, resolved to world coordinates,
\* lies within render.bounds; an unclipped frame passes everything.
C23_PassedIffAnAnchorInView ==
  FrameRegistered =>
    IF options.hasBounds
    THEN captured[frames].constraint <=>
           \/ constraint.hasA /\ Within(ResolvedA)
           \/ constraint.hasB /\ Within(ResolvedB)
    ELSE PassedUnfiltered

\* C23, amended: a bounds-clipped frame passes the constraint to the overlay pass
\* if and only if both of its anchors are defined and at least one of them,
\* resolved to world coordinates, lies within render.bounds; an unclipped frame
\* passes everything.
C23_PassedIffBothDefinedOneInView ==
  FrameRegistered =>
    IF options.hasBounds
    THEN captured[frames].constraint <=>
           /\ constraint.hasA /\ constraint.hasB
           /\ Within(ResolvedA) \/ Within(ResolvedB)
    ELSE PassedUnfiltered

\* C23 witness: a bounds-clipped frame passed a constraint whose anchor on the
\* moved body 1 is out of view and whose unowned anchor is in view.
C23_Witness ==
  /\ FrameRegistered /\ options.hasBounds
  /\ constraint.bodyA = 1 /\ constraint.bodyB = 0
  /\ ~Within(ResolvedA) /\ Within(ResolvedB)
  /\ captured[frames].constraint

\* ------------------------------------------------------------- C24
\* C24: any two successive recomputations of the debug text happen at engine
\* timestamps at least 500 apart, however many overlay passes run in between;
\* render.debugTimestamp is the timestamp of the last recomputation.
C24_DebugThrottled ==
  /\ \A i \in 1..(Len(debugLog) - 1) : debugLog[i + 1] - debugLog[i] >= 500
  /\ debugLog # <<>> => debugTimestamp = debugLog[Len(debugLog)]

\* C24 witness: three overlay passes ran, the text was recomputed in two of them.
C24_Witness ==
  /\ lastOp = "update"
  /\ Len(afterRender) = 3
  /\ Len(debugLog) = 2
  /\ debugLog[2] = timestamp

\* ------------------------------------------------------------- C27
\* the bodies a frame culls: those of the world whose box overlaps render.bounds
\* in bounds-clipped mode, all of them otherwise
FrameBodies ==
  SelectSeq(<<1, 2>>,
            LAMBDA b : /\ b \in inWorld
                       /\ options.hasBounds =>
                            /\ Le(Num(position[b].x - 1), bounds.max.x)
                            /\ Le(bounds.min.x, Num(position[b].x + 1))
                            /\ Le(Num(position[b].y - 1), bounds.max.y)
                            /\ Le(bounds.min.y, Num(position[b].y + 1)))

SelectedBackground == IF options.wireframes THEN "#0f0f13" ELSE "#18181d"

\* C25: a frame invokes the background applier if and only if the selected
\* background differs from render.currentBackground, and after the frame
\* render.currentBackground is the selected background.
C25_BackgroundAppliedOnChange ==
  [][frames' # frames =>
       /\ (\E i \in DOMAIN steps' : steps'[i] = "applyBackground")
            <=> currentBackground # SelectedBackground
       /\ currentBackground' = SelectedBackground]_vars

\* C25 witness: a second frame with unchanged options did not apply the
\* background again.
C25_Witness ==
  /\ lastOp = "world"
  /\ frames >= 2
  /\ currentBackground = SelectedBackground
  /\ \A i \in DOMAIN steps : steps[i] # "applyBackground"

\* ------------------------------------------------------------- C29
\* the body is not rendered by a frame: removed from the world, marked invisible,
\* or culled by the view bounds
NotRendered(b) ==
  \/ b \notin inWorld
  \/ ~visible[b]
  \/ options.hasBounds /\ ~InView(b)

\* C29: a frame neither creates nor updates a node of a body it does not render:
\* the node stays on the layer with its pose and opacity; and no step ever takes
\* a node off the layer or out of the cache.
C29_UnrenderedUntouched ==
  [][/\ frames' # frames =>
          \A e \in Entities :
            NotRendered(BodyOf(e)) =>
              /\ e \notin created' \cup updated'
              /\ layerNodes'[e] = layerNodes[e]
              /\ spriteNode'[e] = spriteNode[e]
              /\ nodePos'[e] = nodePos[e] /\ nodeRotate'[e] = nodeRotate[e]
              /\ opacity'[e] = opacity[e]
     /\ \A e \in Entities :
          /\ layerNodes'[e] >= layerNodes[e]
          /\ spriteNode[e] => spriteNode'[e]]_vars

\* C29 witness: a bounds-clipped frame rendered nothing: body 1 is culled and
\* body 2 is removed from the world, and the nodes of both are still on the layer.
C29_Witness ==
  /\ lastOp = "world"
  /\ options.hasBounds /\ ~InView(1) /\ visible[1]
  /\ 2 \notin inWorld
  /\ layerNodes[1] = 1 /\ layerNodes[3] = 1
  /\ created \cup updated = {}

\* ------------------------------------------------------------- C30
\* C30: after a single Render.run, when the first turn of the loop or a tick has
\* returned, it has rendered a frame, exactly one tick request is pending and
\* render.frameRequestId is the handle of that request.
C30_OneRequestPending ==
  (runs = 1 /\ lastOp \in {"run", "tick"}) =>
    /\ error = "none" /\ frames >= 1
    /\ pending = {frameRequestId}

====
